---- MODULE Spec2Model ----
(***************************************************************************)
(* ChurnPredictionModel (src/src/churn_model.py): feature preparation,     *)
(* stratified 75/25 split, scaler + logistic regression training and       *)
(* evaluation, as a state machine over one model instance.                 *)
(*                                                                         *)
(* Numbers are integers.  Times are counted in half days (a date is an     *)
(* even tick, a datetime at noon the following odd tick).  Ratios are      *)
(* kept as <<numerator, denominator>> pairs and compared by cross          *)
(* multiplication.  The classifier's numeric optimisation is not           *)
(* reproduced: a fitted classifier returns, for each test row, one of the  *)
(* probability levels of Probs, every combination being possible.          *)
(***************************************************************************)
EXTENDS Integers, Sequences, FiniteSets, TLC

----------------------------------------------------------------------------
(* Bounds of the model *)

\* rows of the tables whose cells vary freely
MaxBatch == 2
\* rows of the largest label-block table
MaxRows == 8
\* the random streams considered rotate a sequence by 0..MaxRot places
MaxRot == 0
\* the clock runs from Day0 ticks to Day0 + MaxTick ticks
MaxTick == 2

----------------------------------------------------------------------------
(* Cell values *)

\* a missing float cell (pandas NaN); every real cell value is above it
NaN == -100000
\* a missing timestamp (pandas NaT)
NaT == -100001
\* the first clock value, in half-day ticks (an even number: midnight)
Day0 == 4000

\* raw last_order_date cells: SQL NULL, a string that is no date, a date
\* string, a date-time string (noon of that day)
NullDate == [kind |-> "null", day |-> 0]
TextDate == [kind |-> "text", day |-> 0]
DateOf(d) == [kind |-> "date", day |-> d]
DateTimeOf(d) == [kind |-> "datetime", day |-> d]

\* pd.to_datetime(cell, errors="coerce"): ticks of the timestamp, or NaT
to_datetime(cell) ==
    CASE cell.kind = "date" -> 2 * cell.day
      [] cell.kind = "datetime" -> 2 * cell.day + 1
      [] OTHER -> NaT

\* pd.Timestamp("now"): the current time, not brought back to midnight
Unnormalized(t) == t

\* pd.Timestamp("now").normalize(): midnight of the current day
normalize(t) == (t \div 2) * 2

\* (ref - last).dt.days: whole days of the difference, rounded down; NaN for NaT
dt_days(ref, last) == IF last = NaT THEN NaN ELSE (ref - last) \div 2

\* clip(upper=hi): no lower bound
ClipUpper(v, lo, hi) == IF v > hi THEN hi ELSE v

fillna(v, d) == IF v = NaN THEN d ELSE v

clip(v, lo, hi) == IF v < lo THEN lo ELSE IF v > hi THEN hi ELSE v

\* the value written when the date is missing, and the upper clip
StaleDays == 999

\* days_since_last_order of one row
DaysSinceLastOrder(has_date, cell, t) ==
    IF has_date
    THEN clip(fillna(dt_days(normalize(t), to_datetime(cell)), StaleDays), 0, StaleDays)
    ELSE StaleDays

\* pd.cut(v, bins=[-1, 30, 60, 90, 999], labels=[1, 2, 3, 4]): right-closed
\* intervals; NaN outside them
Bin1 == 30
Bin2 == 60
Bin3 == 90
\* bins=[0, 30, 60, 90, 999]: the first interval opens at 0
CutFromZero(v) ==
    CASE v = NaN -> NaN
      [] v <= 0 -> NaN
      [] v <= Bin1 -> 1
      [] v <= Bin2 -> 2
      [] v <= Bin3 -> 3
      [] v <= StaleDays -> 4
      [] OTHER -> NaN

Cut(v) ==
    CASE v = NaN -> NaN
      [] v <= -1 -> NaN
      [] v <= Bin1 -> 1
      [] v <= Bin2 -> 2
      [] v <= Bin3 -> 3
      [] v <= StaleDays -> 4
      [] OTHER -> NaN

----------------------------------------------------------------------------
(* Sequences *)

RECURSIVE SumSeq(_)
SumSeq(s) == IF s = <<>> THEN 0 ELSE Head(s) + SumSeq(Tail(s))

Range(s) == {s[i] : i \in DOMAIN s}

\* the elements of s at the positions idx, in the order of idx
Take(s, idx) == [k \in 1..Len(idx) |-> s[idx[k]]]

\* the members of a set of integers, ascending
RECURSIVE Ascending(_)
Ascending(S) ==
    IF S = {} THEN <<>>
    ELSE LET m == CHOOSE x \in S : \A y \in S : x <= y
         IN  <<m>> \o Ascending(S \ {m})

\* the positions of s whose element satisfies Test, ascending
Where(s, Test(_)) == Ascending({i \in DOMAIN s : Test(s[i])})

\* s sorted ascending (insertion sort)
RECURSIVE Insert(_, _)
Insert(v, s) ==
    IF s = <<>> THEN <<v>>
    ELSE IF v <= Head(s) THEN <<v>> \o s
    ELSE <<Head(s)>> \o Insert(v, Tail(s))
RECURSIVE Sorted(_)
Sorted(s) == IF s = <<>> THEN <<>> ELSE Insert(Head(s), Sorted(Tail(s)))

\* Series.quantile(0.5, interpolation="lower"): the lower middle value
MedianLower(s) == <<Sorted(s)[(Len(s) + 1) \div 2], 1>>

\* Series.median() as <<numerator, denominator>>: the middle value, or the
\* mean of the two middle values
Median(s) ==
    LET o == Sorted(s)
        n == Len(s)
    IN  IF n % 2 = 1 THEN <<o[(n + 1) \div 2], 1>>
        ELSE <<o[n \div 2] + o[n \div 2 + 1], 2>>

----------------------------------------------------------------------------
(* prepare_features *)

FeatureCols == << "order_count_12m", "revenue_12m", "days_since_last_order",
                  "avg_order_value", "log_revenue", "order_count_sq",
                  "recency_bucket", "is_high_value", "orders_per_month" >>

RawCols == {"customer_id", "order_count_12m", "revenue_12m", "is_churned"}

EmptyTable(cols) == [cols |-> cols, rows |-> <<>>]

\* revenue_12m / (order_count_12m + 1) as <<numerator, denominator>>
AvgOrderValue(r) == <<r.revenue_12m, r.order_count_12m + 1>>

\* revenue_12m / order_count_12m: the orders counted as they are
RevenuePerPlainOrder(r) == <<r.revenue_12m, r.order_count_12m>>

\* revenue_12m / (order_count_12m + 1), once more
RevenuePerOrder(r) == <<r.revenue_12m, r.order_count_12m + 1>>

\* the derived row of one input row; med is the batch median of revenue_12m
FeatureRow(r, has_date, med, t) ==
    LET days == DaysSinceLastOrder(has_date, r.last_order_date, t)
    IN  [customer_id |-> r.customer_id,
         order_count_12m |-> r.order_count_12m,
         revenue_12m |-> r.revenue_12m,
         last_order_date |-> r.last_order_date,
         is_churned |-> r.is_churned,
         days_since_last_order |-> days,
         avg_order_value |-> AvgOrderValue(r),
         log_revenue |-> [log10 |-> r.revenue_12m + 1],
         order_count_sq |-> r.order_count_12m * r.order_count_12m,
         recency_bucket |-> Cut(days),
         is_high_value |-> IF r.revenue_12m * med[2] >= med[1] THEN 1 ELSE 0,
         orders_per_month |-> <<r.order_count_12m, 12>>,
         revenue_per_order |-> RevenuePerOrder(r)]

DerivedCols == {"days_since_last_order", "avg_order_value", "log_revenue",
                "order_count_sq", "recency_bucket", "is_high_value",
                "orders_per_month", "revenue_per_order"}

\* out.dropna(subset=["is_churned"]): the rows whose label is not missing
HasLabel(r) == r.is_churned # NaN
dropna(rows) == SelectSeq(rows, HasLabel)

\* the rows without label dropped first: the median is that of the rows kept
PrepareLabelledOnly(df, t) ==
    IF dropna(df.rows) = <<>> THEN [cols |-> df.cols \cup DerivedCols, rows |-> <<>>]
    ELSE LET has_date == "last_order_date" \in df.cols
             kept == dropna(df.rows)
             med == Median([i \in 1..Len(kept) |-> kept[i].revenue_12m])
         IN  [cols |-> df.cols \cup DerivedCols,
              rows |-> [i \in 1..Len(kept) |-> FeatureRow(kept[i], has_date, med, t)]]

\* the table prepare_features returns for df at clock t
prepare_features(df, t) ==
    IF df.rows = <<>> THEN df
    ELSE LET has_date == "last_order_date" \in df.cols
             med == Median([i \in 1..Len(df.rows) |-> df.rows[i].revenue_12m])
             out == [i \in 1..Len(df.rows) |-> FeatureRow(df.rows[i], has_date, med, t)]
         IN  [cols |-> df.cols \cup DerivedCols, rows |-> dropna(out)]

\* the KeyError of the first column prepare_features reads and does not
\* find, or "" for none: revenue_12m and order_count_12m at line 70,
\* is_churned at line 86
ColumnError(df) ==
    CASE "revenue_12m" \notin df.cols -> "KeyError: 'revenue_12m'"
      [] "order_count_12m" \notin df.cols -> "KeyError: 'order_count_12m'"
      [] "is_churned" \notin df.cols -> "KeyError: ['is_churned']"
      [] OTHER -> ""

\* no test of df.empty: the columns are read whatever the rows
PrepareErrorOnEmpty(df) == ColumnError(df)

\* the error prepare_features raises for df, or "" for none: an empty df is
\* returned before any column is read
PrepareError(df) == IF df.rows = <<>> THEN "" ELSE ColumnError(df)

\* out = df with no copy: the caller's table gets the derived columns
InputAfterInPlace(df, t) ==
    IF df.rows = <<>> THEN df
    ELSE LET has_date == "last_order_date" \in df.cols
             med == Median([i \in 1..Len(df.rows) |-> df.rows[i].revenue_12m])
         IN  [cols |-> df.cols \cup DerivedCols,
              rows |-> [i \in 1..Len(df.rows) |-> FeatureRow(df.rows[i], has_date, med, t)]]

\* out = df.copy(): the caller's table once prepare_features has returned
InputAfter(df, t) == df

\* the names prepare_features stores in feature_names_ (unchanged for an
\* empty df)
available(df) ==
    LET cols == df.cols \cup DerivedCols
    IN  SelectSeq(FeatureCols, LAMBDA c : c \in cols)

\* the names stored before any column is read
NamesStoredFirst(df, names) == IF df.rows = <<>> THEN names ELSE available(df)

\* feature_names_ once prepare_features has ended: unchanged for an empty df
\* and when line 70 raises, else the names of line 83
NamesAfterPrepare(df, names) ==
    IF df.rows = <<>> \/ {"revenue_12m", "order_count_12m"} \ df.cols # {}
    THEN names
    ELSE available(df)

----------------------------------------------------------------------------
(* train_test_split(X, y, test_size=0.25, random_state=42, stratify=y) *)

\* test_size = TestSizeNum / TestSizeDen
TestSizeNum == 1
TestSizeDen == 4
random_state == 42

\* a random stream: how a tie between classes is broken and how far a
\* permutation rotates
Streams == [tie : 0..1, rot : 0..MaxRot]

\* s moved r places to the left, the head going to the end
Rotate(s, r) ==
    IF s = <<>> THEN <<>>
    ELSE SubSeq(s, (r % Len(s)) + 1, Len(s)) \o SubSeq(s, 1, r % Len(s))

\* rng.permutation(s)
Permutation(s, rng) == IF s = <<>> THEN <<>> ELSE Rotate(s, rng.rot)

\* rng.choice(inds, size=k, replace=False)
Choice(inds, k, rng) == SubSeq(Rotate(inds, rng.tie), 1, k)

\* np.unique(y): the labels present, ascending
Unique(y) == Ascending(Range(y))

\* np.bincount of y over its classes
ClassCounts(y) ==
    LET classes == Unique(y)
    IN  [c \in 1..Len(classes) |-> Cardinality({i \in DOMAIN y : y[i] = classes[c]})]

\* ceil(test_size * n_samples)
NTest(n) == (n * TestSizeNum + TestSizeDen - 1) \div TestSizeDen
NTrain(n) == n - NTest(n)

\* the distinct values of a sequence of integers, descending
RECURSIVE Descending(_)
Descending(S) ==
    IF S = {} THEN <<>>
    ELSE LET m == CHOOSE x \in S : \A y \in S : x >= y
         IN  <<m>> \o Descending(S \ {m})

\* the loop of _approximate_mode over the remainder values, largest first:
\* the classes holding the value get one more draw each, chosen by the
\* stream when they are more than the draws still to add
RECURSIVE AddRemainders(_, _, _, _, _)
AddRemainders(floored, remainder, values, need, rng) ==
    IF need = 0 \/ values = <<>> THEN floored
    ELSE LET inds == Where(remainder, LAMBDA v : v = Head(values))
             add_now == IF Len(inds) < need THEN Len(inds) ELSE need
             chosen == Range(Choice(inds, add_now, rng))
             bumped == [c \in DOMAIN floored |->
                           IF c \in chosen THEN floored[c] + 1 ELSE floored[c]]
         IN  AddRemainders(bumped, remainder, Tail(values), need - add_now, rng)

\* _approximate_mode(class_counts, n_draws, rng): n_draws spread over the
\* classes in proportion to their counts, largest remainders rounded up
ApproximateMode(class_counts, n_draws, rng) ==
    LET total == SumSeq(class_counts)
        floored == [c \in DOMAIN class_counts |-> (class_counts[c] * n_draws) \div total]
        remainder == [c \in DOMAIN class_counts |-> (class_counts[c] * n_draws) % total]
        need == n_draws - SumSeq(floored)
    IN  IF need > 0
        THEN AddRemainders(floored, remainder, Descending(Range(remainder)), need, rng)
        ELSE floored

\* the ValueError train_test_split raises for the labels y, or "" for none
SplitError(y) ==
    LET n == Len(y)
        counts == ClassCounts(y)
    IN  CASE NTrain(n) = 0 -> "ValueError: the resulting train set will be empty"
          [] \E c \in DOMAIN counts : counts[c] < 2 ->
                "ValueError: the least populated class in y has only 1 member"
          [] NTrain(n) < Len(counts) -> "ValueError: train_size less than the number of classes"
          [] NTest(n) < Len(counts) -> "ValueError: test_size less than the number of classes"
          [] OTHER -> ""

\* the rows of every class permuted, the first n_i[c] of class c going to the
\* train partition and the next t_i[c] to the test partition, each partition
\* then permuted
Partition(y, classes, n_i, t_i, rng) ==
    LET perm == [c \in DOMAIN classes |->
                    Permutation(Where(y, LAMBDA v : v = classes[c]), rng)]
        RECURSIVE Gather(_, _)
        Gather(c, part) ==
            IF c > Len(classes) THEN <<>>
            ELSE (IF part = "train"
                  THEN SubSeq(perm[c], 1, n_i[c])
                  ELSE SubSeq(perm[c], n_i[c] + 1, n_i[c] + t_i[c]))
                 \o Gather(c + 1, part)
    IN  [train |-> Permutation(Gather(1, "train"), rng),
         test |-> Permutation(Gather(1, "test"), rng)]

\* StratifiedShuffleSplit: the draws of the train partition are allocated to
\* the classes first, those of the test partition among the rows that remain
\* (each intermediate result is computed once, as a member of a one-element set)
StratifiedSplit(y, rng) ==
    CHOOSE part \in
        {Partition(y, classes, n_i, ApproximateMode(remaining, NTest(Len(y)), rng), rng) :
            <<classes, n_i, remaining>> \in
                {<<Unique(y), n, [c \in DOMAIN counts |-> counts[c] - n[c]]>> :
                    counts \in {ClassCounts(y)},
                    n \in {ApproximateMode(cc, NTrain(Len(y)), rng) : cc \in {ClassCounts(y)}}}} :
        TRUE

\* ShuffleSplit (stratify=None): the rows permuted, the first n_test going to
\* the test partition and the following n_train to the train partition
ShuffleSplit(y, rng) ==
    LET permutation == Permutation([i \in 1..Len(y) |-> i], rng)
    IN  [train |-> SubSeq(permutation, NTest(Len(y)) + 1, Len(y)),
         test |-> SubSeq(permutation, 1, NTest(Len(y)))]

\* train_test_split(..., stratify=y): the partition of the rows labelled y
train_test_split(y, rng) == StratifiedSplit(y, rng)

----------------------------------------------------------------------------
(* StandardScaler, LogisticRegression and the metrics *)

\* the feature columns whose cells are plain numbers
NumericCols == {"order_count_12m", "revenue_12m", "days_since_last_order",
                "order_count_sq", "recency_bucket", "is_high_value"}

\* prepared[feature_cols].fillna(0): one row of X
XRow(r, feature_cols) ==
    [c \in Range(feature_cols) |-> IF c \in NumericCols THEN fillna(r[c], 0) ELSE r[c]]

\* StandardScaler(): nothing seen yet
NewScaler == [n_samples_seen |-> 0, sum |-> [c \in {} |-> 0], sumsq |-> [c \in {} |-> 0]]

\* StandardScaler.fit(X): mean_ and var_ of a column are given by the number
\* of rows, the sum and the sum of squares of the column
ScalerFit(X) ==
    LET cols == IF X = <<>> THEN {} ELSE DOMAIN X[1] \cap NumericCols
    IN  [n_samples_seen |-> Len(X),
         sum |-> [c \in cols |-> SumSeq([i \in DOMAIN X |-> X[i][c]])],
         sumsq |-> [c \in cols |-> SumSeq([i \in DOMAIN X |-> X[i][c] * X[i][c]])]]

\* the classifier attribute: None, a constructed estimator, a fitted one
NoModel == [kind |-> "None", fitted |-> FALSE, classes |-> <<>>, n_coef |-> 0]
NewModel == [kind |-> "LogisticRegression", fitted |-> FALSE, classes |-> <<>>, n_coef |-> 0]
FittedModel(classes, n) ==
    [kind |-> "LogisticRegression", fitted |-> TRUE, classes |-> classes, n_coef |-> n]

\* the predicted probabilities of classes_[2] considered, in quarters
Probs == {1, 3}
ProbDen == 4

\* model.predict_proba(X): one row <<P(classes_[1]), P(classes_[2])>> per row
predict_proba(probs) == [i \in DOMAIN probs |-> <<ProbDen - probs[i], probs[i]>>]

\* model.predict(X): classes_[2] where the decision function is positive,
\* that is where its probability exceeds one half
predict(m, probs) ==
    [i \in DOMAIN probs |-> IF 2 * probs[i] > ProbDen THEN m.classes[2] ELSE m.classes[1]]

\* predict_proba(...)[:, 1]
ChurnColumn(proba) == [i \in DOMAIN proba |-> proba[i][2]]

\* unique_labels(y_true, y_pred)
UniqueLabels(y_true, y_pred) == Ascending(Range(y_true) \cup Range(y_pred))

\* confusion_matrix(y_true, y_pred): rows actual, columns predicted, over
\* the labels present in either
confusion_matrix(y_true, y_pred) ==
    LET labels == UniqueLabels(y_true, y_pred)
    IN  [a \in 1..Len(labels) |-> [p \in 1..Len(labels) |->
            Cardinality({i \in DOMAIN y_true :
                            y_true[i] = labels[a] /\ y_pred[i] = labels[p]})]]

\* accuracy_score(..., normalize=False): the number of correct rows
AccuracyCount(y_true, y_pred) ==
    <<Cardinality({i \in DOMAIN y_true : y_true[i] = y_pred[i]}), 1>>

\* accuracy_score(y_true, y_pred) as <<correct, rows>>
accuracy_score(y_true, y_pred) ==
    <<Cardinality({i \in DOMAIN y_true : y_true[i] = y_pred[i]}), Len(y_true)>>

\* roc_auc_score(y_true, score) as a ratio: the share of (positive, negative)
\* pairs ranked in order, ties counting one half
roc_auc_score(y_true, score) ==
    LET pos == {i \in DOMAIN y_true : y_true[i] = 1}
        neg == {i \in DOMAIN y_true : y_true[i] = 0}
    IN  << 2 * Cardinality({q \in pos \X neg : score[q[1]] > score[q[2]]})
             + Cardinality({q \in pos \X neg : score[q[1]] = score[q[2]]}),
           2 * Cardinality(pos) * Cardinality(neg) >>

TargetNames == <<"Not churned", "Churned">>

\* classification_report(..., labels=[0, 1]): a mismatch with the names only
\* warns
ReportErrorWithLabels(y_true, y_pred) == ""

\* the ValueError of classification_report(y_true, y_pred, target_names=...),
\* or "" for none
ReportError(y_true, y_pred) ==
    IF Len(UniqueLabels(y_true, y_pred)) # Len(TargetNames)
    THEN "ValueError: number of classes does not match size of target_names"
    ELSE ""

\* the report: the support of every named class
classification_report(y_true, y_pred) ==
    LET labels == UniqueLabels(y_true, y_pred)
    IN  [c \in 1..Len(labels) |->
            [name |-> TargetNames[c],
             support |-> Cardinality({i \in DOMAIN y_true : y_true[i] = labels[c]})]]

----------------------------------------------------------------------------
(* The tables handed to the model *)

Row(id, cnt, rev, date, label) ==
    [customer_id |-> id, order_count_12m |-> cnt, revenue_12m |-> rev,
     last_order_date |-> date, is_churned |-> label]

AllCols == RawCols \cup {"last_order_date"}

\* ages, in days at clock Day0, of the dates tried: around every bin edge,
\* in the future and beyond the clip
Ages == {-1, 0, 1, 30, 31, 60, 61, 90, 91, 999, 1000}
DateCells ==
    {NullDate, TextDate}
    \cup {DateOf(Day0 \div 2 - a) : a \in Ages}
    \cup {DateTimeOf(Day0 \div 2 - a) : a \in Ages}

Labels == {0, 1, NaN}

\* date('now', '-90 days'): the days of the churn cutoff
ChurnDays == 90

\* CASE WHEN last_order_date <= cutoff_date: the cutoff day itself churned
ChurnLabelInclusive(cell, today) ==
    IF cell.kind \in {"date", "datetime"} /\ cell.day <= today - ChurnDays THEN 1 ELSE 0

\* CASE WHEN last_order_date < cutoff_date THEN 1 ELSE 0, the query running
\* on the day today: the texts compare as their dates do, a date with a time
\* of day coming after the bare date
ChurnLabel(cell, today) ==
    IF cell.kind \in {"date", "datetime"} /\ cell.day < today - ChurnDays THEN 1 ELSE 0

\* an is_churned cell holding a string that is no number
TextLabel == -100002
RawLabels == Labels \cup {TextLabel}

\* one customer, every date cell and label
SingleTables ==
    {[cols |-> AllCols, rows |-> <<Row(1, 2, rev, d, l)>>] :
        rev \in {0, 50}, d \in DateCells, l \in RawLabels}
    \cup {[cols |-> RawCols, rows |-> <<Row(1, 2, 50, NullDate, l)>>] : l \in RawLabels}

\* a recent and an old order date
Recent == DateOf(Day0 \div 2 - 5)
Old == DateOf(Day0 \div 2 - 95)

\* up to MaxBatch customers, every revenue and label
BatchRows(id) ==
    {Row(id, id, rev, IF l = 1 THEN Old ELSE Recent, l) : rev \in {10, 30}, l \in Labels}
RECURSIVE BatchSeqs(_)
BatchSeqs(n) ==
    IF n = 0 THEN {<<>>}
    ELSE {Append(s, r) : s \in BatchSeqs(n - 1), r \in BatchRows(n)}
BatchTables ==
    {[cols |-> AllCols, rows |-> rows] : rows \in UNION {BatchSeqs(n) : n \in 2..MaxBatch}}

\* two customers, the first with a text for label
TextTables ==
    {[cols |-> AllCols, rows |-> <<Row(1, 1, 10, Recent, TextLabel), Row(2, 2, 30, Old, l)>>] :
        l \in Labels}

\* one customer, the table lacking the columns the features are made of, or
\* the label
MalformedTables ==
    {[cols |-> {"customer_id", "last_order_date", "is_churned"},
      rows |-> <<[customer_id |-> 1, last_order_date |-> Recent, is_churned |-> 0]>>],
     [cols |-> AllCols \ {"is_churned"},
      rows |-> <<[customer_id |-> 1, order_count_12m |-> 2, revenue_12m |-> 30,
                  last_order_date |-> Recent]>>]}

\* the tables prepare_features is studied on
FeatureTables ==
    {EmptyTable(AllCols), EmptyTable({})} \cup SingleTables \cup BatchTables \cup TextTables
    \cup MalformedTables

\* n customers with the given labels; churned customers ordered long ago
LabelRow(i, l) ==
    IF l = 1 THEN Row(i, 1, 10, Old, l) ELSE Row(i, 2, 30, Recent, l)
LabelTable(ls) == [cols |-> AllCols, rows |-> [i \in DOMAIN ls |-> LabelRow(i, ls[i])]]

\* every labelling of up to MaxBatch customers, missing labels included
RECURSIVE LabelSeqs(_)
LabelSeqs(n) ==
    IF n = 0 THEN {<<>>}
    ELSE {Append(s, l) : s \in LabelSeqs(n - 1), l \in Labels}

\* n customers, the first k of class minor and the others of the other class
BlockLabels(n, k, minor) == [i \in 1..n |-> IF i <= k THEN minor ELSE 1 - minor]

\* the tables train_and_evaluate is studied on
TrainTables ==
    {EmptyTable(AllCols), EmptyTable({})}
    \cup MalformedTables
    \cup {LabelTable(ls) : ls \in UNION {LabelSeqs(n) : n \in 1..MaxBatch}}
    \cup {LabelTable(BlockLabels(n, k, minor)) :
            n \in (MaxBatch + 1)..MaxRows, k \in 0..(MaxRows \div 2), minor \in {0, 1}}

----------------------------------------------------------------------------
(* State *)

VARIABLES
    scaler,          \* self.scaler
    model,           \* self.model
    feature_names_,  \* self.feature_names_
    _trained,        \* self._trained
    files,           \* the files present in output_dir
    now,             \* the clock, in half-day ticks
    mt,              \* the stream every seed yields
    last,            \* the last call: its argument, what it computed, how it ended
    prev,            \* the call before it, when it had the same argument
    pc,              \* the stage main() is at
    engine,          \* db._engine is set
    analytics_results, \* the tables get_all_kpis has computed, by name
    log,             \* the queries issued and the stages run, in order
    ai_summary,      \* the AIExecutiveSummary object
    skipped,         \* main() has printed "AI summary skipped"
    executed         \* the queries run on a connection of the engine, in order

vars == <<scaler, model, feature_names_, _trained, files, now, mt, last, prev,
          pc, engine, analytics_results, log, ai_summary, skipped, executed>>

\* what main() holds besides the churn model
mainvars == <<pc, engine, analytics_results, log, ai_summary, skipped, executed>>

\* the values anthropic.api_key may have in the configuration
ApiKeys == {"", "your-api-key-here", "sk-key"}

\* AIExecutiveSummary(config_path): the key read, no client yet; installed
\* tells whether `from anthropic import Anthropic` found the package, clients
\* and requests count the clients constructed and the calls of
\* messages.create, calls the calls of generate_and_save
AIExecutiveSummary(installed, api_key) ==
    [installed |-> installed, api_key |-> api_key, _client |-> FALSE,
     clients |-> 0, requests |-> 0, calls |-> 0, outcome |-> ""]

EmptyResult == [k \in {} |-> 0]

\* no call made yet
NoCall ==
    [op |-> "none", df |-> EmptyTable({}), t |-> 0, prepared |-> EmptyTable({}),
     outcome |-> "none", error |-> "", result |-> EmptyResult,
     split |-> FALSE, train |-> <<>>, test |-> <<>>, feature_cols |-> <<>>,
     y |-> <<>>, y_test |-> <<>>, y_pred |-> <<>>, y_pred_proba |-> <<>>,
     written |-> <<>>, df_after |-> EmptyTable({})]

\* the global generator (random_state=None): its stream moves on with every
\* call that draws from it
RandomStateGlobal(seed) ==
    IF last.op = "none" THEN mt[seed]
    ELSE [tie |-> 1 - mt[seed].tie, rot |-> mt[seed].rot]

\* np.random.RandomState(seed): the stream of the seed
RandomState(seed) == mt[seed]

InitObjects ==
    /\ scaler = NewScaler
    /\ model = NoModel
    /\ feature_names_ = <<>>
    /\ _trained = FALSE
    /\ files = {}
    /\ now = Day0
    /\ mt \in [{random_state} -> Streams]
    /\ last = NoCall
    /\ prev = NoCall
    /\ pc = "analytics"
    /\ engine = TRUE
    /\ analytics_results = [k \in {} |-> EmptyTable({})]
    /\ log = <<>>
    /\ skipped = FALSE
    /\ executed = <<>>

\* the state after construction, the package installed and the key of the
\* configuration still the placeholder
Init == InitObjects /\ ai_summary = AIExecutiveSummary(TRUE, "your-api-key-here")

\* the state after the constructions of main(), whatever the environment
\* and the configuration
InitMain ==
    /\ InitObjects
    /\ ai_summary \in {AIExecutiveSummary(installed, api_key) :
                          installed \in BOOLEAN, api_key \in ApiKeys}

\* what is remembered of a call when the next one has the same argument: of
\* prepare_features the table it returned, of train_and_evaluate the partition
Digest(rec) ==
    [NoCall EXCEPT !.op = rec.op, !.df = rec.df, !.t = rec.t,
                   !.prepared = IF rec.op = "prepare_features"
                                THEN rec.prepared ELSE EmptyTable({}),
                   !.split = rec.split, !.train = rec.train, !.test = rec.test]

\* rec repeats the last call: the same operation on the same argument, both
\* having got as far as their result (a table, a partition)
Repeats(rec) ==
    /\ last.op = rec.op
    /\ last.df = rec.df
    /\ rec.op = "train_and_evaluate" => last.split /\ rec.split

\* the call rec ends, leaving the instance with the given attributes
Commit(sc, m, names, tr, fs, rec) ==
    /\ scaler' = sc
    /\ model' = m
    /\ feature_names_' = names
    /\ _trained' = tr
    /\ files' = fs
    /\ prev' = IF Repeats(rec) THEN Digest(last) ELSE NoCall
    /\ last' = rec
    /\ UNCHANGED <<now, mt>>

\* time passes
Tick ==
    /\ now < Day0 + MaxTick
    /\ now' = now + 1
    /\ UNCHANGED <<scaler, model, feature_names_, _trained, files, mt, last, prev>>
    /\ UNCHANGED mainvars

\* prepare_features(df)
PrepareFeatures(df) ==
    IF PrepareError(df) # ""
    THEN Commit(scaler, model, NamesAfterPrepare(df, feature_names_), _trained, files,
                [NoCall EXCEPT !.op = "prepare_features", !.df = df, !.t = now,
                               !.df_after = df,
                               !.outcome = "raised", !.error = PrepareError(df)])
    ELSE Commit(scaler, model, NamesAfterPrepare(df, feature_names_), _trained, files,
                [NoCall EXCEPT !.op = "prepare_features", !.df = df, !.t = now,
                               !.df_after = InputAfter(df, now),
                               !.prepared = prepare_features(df, now),
                               !.outcome = "returned"])

\* train_model(X, y): the attributes it leaves and the ValueError of
\* LogisticRegression.fit when y holds a single class ("" for none)
train_model(columns, X, y) ==
    LET classes == Unique(y)
        one_class == Len(classes) < 2
    IN  [feature_names_ |-> columns,
         scaler |-> ScalerFit(X),
         model |-> IF one_class THEN NewModel ELSE FittedModel(classes, Len(columns)),
         trained |-> IF one_class THEN _trained ELSE TRUE,
         error |-> IF one_class
                   THEN "ValueError: this solver needs samples of at least 2 classes"
                   ELSE ""]

\* scaler.fit_transform(X) in place of transform: the scaler is fitted again
ScalerAfterFitTransform(sc, X) == ScalerFit(X)

\* scaler.transform(X): the scaler is read, not fitted
ScalerAfterTransform(sc, X) == sc

\* plot_feature_importance(save=False): the plot shown, no file written
FeatureImportanceShown(tr, m) == <<>>

\* the file plot_feature_importance(save=True) writes, if any
FeatureImportancePlot(tr, m) ==
    IF ~tr \/ m.kind = "None" THEN <<>> ELSE <<"churn_feature_importance.png">>

\* the value of roc_auc in train_and_evaluate
RocAuc(y_test, y_pred_proba) ==
    IF Len(Unique(y_test)) > 1 THEN roc_auc_score(y_test, y_pred_proba) ELSE <<0, 1>>

\* every derived column selected, revenue_per_order with the others
SelectDerivedCols(names, prepared) ==
    SelectSeq(names, LAMBDA c : c \in prepared.cols) \o <<"revenue_per_order">>

\* the names of feature_names_ present in the prepared table, else those of
\* the default list
SelectFeatureCols(names, prepared) ==
    LET present(l) == SelectSeq(l, LAMBDA c : c \in prepared.cols)
    IN  IF present(names) # <<>> THEN present(names) ELSE present(FeatureCols)

\* lines 248-265 of train_and_evaluate: the evaluation of a fitted model
\* whose probabilities for the test rows are probs
Evaluate(fit, X_test, y_test, probs, call) ==
    \E sc \in {ScalerAfterTransform(fit.scaler, X_test)},
       y_pred \in {predict(fit.model, probs)},
       y_pred_proba \in {ChurnColumn(predict_proba(probs))} :
        LET cm == confusion_matrix(y_test, y_pred)
            acc == accuracy_score(y_test, y_pred)
            roc_auc == RocAuc(y_test, y_pred_proba)
            written == FeatureImportancePlot(fit.trained, fit.model)
                       \o <<"churn_confusion_matrix.png", "churn_roc_curve.png",
                            "churn_model_results.txt">>
            results == [accuracy |-> acc, roc_auc |-> roc_auc,
                        classification_report |-> classification_report(y_test, y_pred),
                        confusion_matrix |-> cm]
            eval_call == [call EXCEPT !.y_pred = y_pred, !.y_pred_proba = y_pred_proba]
        IN  IF ReportError(y_test, y_pred) # ""
            THEN Commit(sc, fit.model, fit.feature_names_, fit.trained, files,
                        [eval_call EXCEPT !.outcome = "raised",
                                          !.error = ReportError(y_test, y_pred)])
            ELSE Commit(sc, fit.model, fit.feature_names_, fit.trained,
                        files \cup Range(written),
                        [eval_call EXCEPT !.outcome = "returned", !.result = results,
                                          !.written = written])

\* lines 244-247 of train_and_evaluate: split, then train on the train rows
SplitAndTrain(feature_cols, X, y, names, call) ==
    IF SplitError(y) # ""
    THEN Commit(scaler, model, names, _trained, files,
                [call EXCEPT !.feature_cols = feature_cols, !.y = y,
                             !.outcome = "raised", !.error = SplitError(y)])
    ELSE \E part \in {train_test_split(y, RandomState(random_state))} :
         \E X_train \in {Take(X, part.train)}, y_train \in {Take(y, part.train)},
            X_test \in {Take(X, part.test)}, y_test \in {Take(y, part.test)} :
         \E fit \in {train_model(feature_cols, X_train, y_train)} :
            LET split_call == [call EXCEPT !.feature_cols = feature_cols, !.y = y,
                                           !.split = TRUE, !.train = part.train,
                                           !.test = part.test, !.y_test = y_test]
            IN  IF fit.error # ""
                THEN Commit(fit.scaler, fit.model, fit.feature_names_, fit.trained, files,
                            [split_call EXCEPT !.outcome = "raised", !.error = fit.error])
                ELSE \E probs \in [DOMAIN y_test -> Probs] :
                        Evaluate(fit, X_test, y_test, probs, split_call)

\* the guard is missing: no table counts as empty
NoValidDataUnchecked(prepared) == FALSE

\* prepared.empty or "is_churned" not in prepared.columns
NoValidData(prepared) == prepared.rows = <<>> \/ "is_churned" \notin prepared.cols

\* train_and_evaluate(df)
TrainAndEvaluate(df) ==
    IF PrepareError(df) # ""
    THEN Commit(scaler, model, NamesAfterPrepare(df, feature_names_), _trained, files,
                [NoCall EXCEPT !.op = "train_and_evaluate", !.df = df, !.t = now,
                               !.df_after = df,
                               !.outcome = "raised", !.error = PrepareError(df)])
    ELSE
    \E prepared \in {prepare_features(df, now)},
       names \in {NamesAfterPrepare(df, feature_names_)} :
    \E feature_cols \in {SelectFeatureCols(names, prepared)},
       call \in {[NoCall EXCEPT !.op = "train_and_evaluate", !.df = df, !.t = now,
                                !.df_after = InputAfter(df, now),
                                !.prepared = prepared]} :
        IF NoValidData(prepared)
        THEN Commit(scaler, model, names, _trained, files,
                    [call EXCEPT !.outcome = "returned"])
        ELSE IF feature_cols = <<>>
        THEN Commit(scaler, model, names, _trained, files,
                    [call EXCEPT !.outcome = "returned"])
        ELSE \E X \in {[i \in DOMAIN prepared.rows |-> XRow(prepared.rows[i], feature_cols)]},
                y \in {[i \in DOMAIN prepared.rows |-> prepared.rows[i].is_churned]} :
                SplitAndTrain(feature_cols, X, y, names, call)

\* plot_feature_importance(save=True) called by itself: skipped when the flag
\* is false or the model None; coef_ of a classifier that is not fitted
\* raises AttributeError
PlotFeatureImportance ==
    LET call == [NoCall EXCEPT !.op = "plot_feature_importance", !.t = now]
    IN  IF ~_trained \/ model.kind = "None"
        THEN Commit(scaler, model, feature_names_, _trained, files,
                    [call EXCEPT !.outcome = "returned"])
        ELSE IF ~model.fitted
        THEN Commit(scaler, model, feature_names_, _trained, files,
                    [call EXCEPT !.outcome = "raised",
                                 !.error = "AttributeError: no attribute 'coef_'"])
        ELSE Commit(scaler, model, feature_names_, _trained,
                    files \cup Range(FeatureImportancePlot(_trained, model)),
                    [call EXCEPT !.outcome = "returned",
                                 !.written = FeatureImportancePlot(_trained, model)])

\* one model instance, trained and evaluated on any table, any number of
\* times, its feature importance plotted at any moment
Next ==
    \/ \E df \in TrainTables : TrainAndEvaluate(df) /\ UNCHANGED mainvars
    \/ PlotFeatureImportance /\ UNCHANGED mainvars

Spec == Init /\ [][Next]_vars

\* feature preparation on any table while time passes
NextFeatures ==
    \/ Tick
    \/ \E df \in FeatureTables : PrepareFeatures(df) /\ UNCHANGED mainvars

\* the stream plays no part in feature preparation
InitFeatures == Init /\ mt[random_state] = [tie |-> 0, rot |-> 0]

SpecFeatures == InitFeatures /\ [][NextFeatures]_vars

----------------------------------------------------------------------------
(* main(): analytics, visualizations, churn model, AI summary, db.close() *)

\* the queries of get_all_kpis, in the order they are run
KpiNames == <<"monthly_revenue_trends", "profit_margins", "customer_lifetime_value",
              "pareto_analysis", "churn_features">>

\* the result of a query the churn model does not read
KpiTable == EmptyTable({"kpi"})

\* the tables calculate_churn_features may return: labels 0 and 1 only,
\* churned customers last ordered long ago
PipelineTables ==
    {EmptyTable(AllCols)}
    \cup {LabelTable(ls) : ls \in UNION {[1..n -> {0, 1}] : n \in 1..MaxBatch}}
    \cup {LabelTable(BlockLabels(MaxRows, k, minor)) : k \in 2..3, minor \in {0, 1}}

\* db.close() moved before the AI summary
StageAfterCloseFirst(stage) ==
    CASE stage = "analytics" -> "visualizations"
      [] stage = "visualizations" -> "churn"
      [] stage = "churn" -> "close"
      [] stage = "close" -> "ai_summary"
      [] OTHER -> "done"

\* the stage main() goes on to when a stage has ended
StageAfter(stage) ==
    CASE stage = "analytics" -> "visualizations"
      [] stage = "visualizations" -> "churn"
      [] stage = "churn" -> "ai_summary"
      [] stage = "ai_summary" -> "close"
      [] OTHER -> "done"

\* one query of get_all_kpis: execute_query returns a table or raises, and
\* raises RuntimeError when the engine is gone
RunQuery ==
    /\ pc = "analytics"
    /\ LET name == KpiNames[Cardinality(DOMAIN analytics_results) + 1]
           done == DOMAIN analytics_results \cup {name}
       IN  /\ log' = Append(log, name)
           /\ executed' = IF engine THEN Append(executed, name) ELSE executed
           /\ IF ~engine
              THEN pc' = "aborted" /\ UNCHANGED analytics_results
              ELSE \/ pc' = "aborted" /\ UNCHANGED analytics_results
                   \/ \E df \in IF name = "churn_features" THEN PipelineTables ELSE {KpiTable} :
                        /\ analytics_results' =
                              [k \in done |-> IF k = name THEN df ELSE analytics_results[k]]
                        /\ pc' = IF done = Range(KpiNames) THEN StageAfter("analytics")
                                  ELSE "analytics"
    /\ UNCHANGED <<scaler, model, feature_names_, _trained, files, now, mt, last, prev, engine,
                   ai_summary, skipped>>

\* viz.generate_all_visualizations(analytics_results): returns, or a plot raises
GenerateVisualizations ==
    /\ pc = "visualizations"
    /\ log' = Append(log, "generate_all_visualizations")
    /\ \E raised \in BOOLEAN :
          pc' = IF raised THEN "aborted" ELSE StageAfter("visualizations")
    /\ UNCHANGED <<scaler, model, feature_names_, _trained, files, now, mt, last, prev,
                   engine, analytics_results, ai_summary, skipped, executed>>

\* the test is missing: the churn model is trained whatever the table
ChurnStageRunsAlways(churn_df) == TRUE

\* churn_df is not None and not churn_df.empty
ChurnStageRuns(churn_df) == churn_df.rows # <<>>

\* the churn stage of main(): train_and_evaluate(churn_df), whose error
\* nothing catches, or the skip
ChurnStage ==
    /\ pc = "churn"
    /\ LET churn_df == analytics_results["churn_features"]
       IN  IF ChurnStageRuns(churn_df)
           THEN /\ TrainAndEvaluate(churn_df)
                /\ log' = Append(log, "train_and_evaluate")
                /\ pc' = IF last'.outcome = "raised" THEN "aborted" ELSE StageAfter("churn")
                /\ UNCHANGED <<engine, analytics_results, ai_summary, skipped, executed>>
           ELSE /\ log' = Append(log, "skipping churn model")
                /\ pc' = StageAfter("churn")
                /\ UNCHANGED <<scaler, model, feature_names_, _trained, files, now, mt,
                               last, prev, engine, analytics_results, ai_summary, skipped, executed>>

\* how ai_summary.generate_and_save ends: the summary saved, the ValueError of
\* a missing key, the ImportError of a missing package, an error of the API
\* or of the file system
AIOutcomes == {"saved", "ValueError", "ImportError", "APIError"}

\* the key is tested before the package
GetClientKeyFirst(s) ==
    IF s.api_key \in {"", "your-api-key-here"} THEN "ValueError"
    ELSE IF ~s.installed THEN "ImportError"
    ELSE ""

\* the error _get_client raises, "" when it returns the client
GetClientError(s) ==
    IF ~s.installed THEN "ImportError"
    ELSE IF s.api_key \in {"", "your-api-key-here"} THEN "ValueError"
    ELSE ""

\* the object once _get_client has returned: the client is constructed when
\* there is none
GetClient(s) ==
    [s EXCEPT !._client = TRUE, !.clients = IF s._client THEN @ ELSE @ + 1]

\* the ways generate_and_save may end on the object s with the files fs: the
\* error of _get_client, or the client called, which answers or raises, and
\* the answer written to reports/executive_summary.md
generate_and_save(s, fs) ==
    IF GetClientError(s) # ""
    THEN {[summary |-> [s EXCEPT !.calls = @ + 1, !.outcome = GetClientError(s)],
           files |-> fs]}
    ELSE {[summary |-> [GetClient(s) EXCEPT !.requests = @ + 1, !.calls = @ + 1,
                                            !.outcome = outcome],
           files |-> IF outcome = "saved" THEN fs \cup {"executive_summary.md"} ELSE fs] :
            outcome \in AIOutcomes \ {"ImportError"}}

\* the errors main() catches around generate_and_save
Caught == {"ValueError", "ImportError"}

\* the AI summary stage: ValueError and ImportError are caught and reported
AISummary ==
    /\ pc = "ai_summary"
    /\ log' = Append(log, "generate_and_save")
    /\ \E r \in generate_and_save(ai_summary, files) :
          /\ ai_summary' = r.summary
          /\ files' = r.files
          /\ skipped' = (r.summary.outcome \in Caught)
          /\ pc' = IF r.summary.outcome \in Caught \cup {"saved"}
                   THEN StageAfter("ai_summary") ELSE "aborted"
    /\ UNCHANGED <<scaler, model, feature_names_, _trained, now, mt, last, prev,
                   engine, analytics_results, executed>>

\* db.close(): the engine disposed of
CloseDb ==
    /\ pc = "close"
    /\ engine' = FALSE
    /\ log' = Append(log, "close")
    /\ pc' = StageAfter("close")
    /\ UNCHANGED <<scaler, model, feature_names_, _trained, files, now, mt, last, prev,
                   analytics_results, ai_summary, skipped, executed>>

\* one run of main()
NextMain ==
    \/ RunQuery
    \/ GenerateVisualizations
    \/ ChurnStage
    \/ AISummary
    \/ CloseDb

SpecMain == InitMain /\ [][NextMain]_vars

\* main() runs on while it has a statement to run
SpecMainFair == SpecMain /\ WF_vars(NextMain)

\* the calls of generate_and_save one object may take
MaxCalls == 2

\* ai_summary.generate_and_save(analytics_results) called on the object of
\* main() by any other caller: its error is the caller's
GenerateAndSave ==
    /\ ai_summary.calls < MaxCalls
    /\ \E r \in generate_and_save(ai_summary, files) :
          /\ ai_summary' = r.summary
          /\ files' = r.files
    /\ UNCHANGED <<scaler, model, feature_names_, _trained, now, mt, last, prev,
                   pc, engine, analytics_results, log, skipped, executed>>

\* main() and the further calls on its summary object
NextSummary ==
    \/ NextMain
    \/ GenerateAndSave

SpecSummary == InitMain /\ [][NextSummary]_vars

----------------------------------------------------------------------------
(* DatabaseManager: the engine, the queries, close() *)

\* the queries the engine takes before the model stops counting
MaxQueries == 2

\* the query strings and the table asked about
Queries == {"SELECT 1", "SELECT 2"}
TableInfoQuery == "PRAGMA table_info"

\* the .sql files asked for, and the one that exists
SqlFiles == {"kpi.sql", "missing.sql"}
Exists(file_path) == file_path = "kpi.sql"
FileQuery == "kpi.sql query"

\* a call on the manager: its argument, how it ended
DbCall(op, arg, outcome, error) ==
    [op |-> op, arg |-> arg, outcome |-> outcome, error |-> error]

\* the engine is handed out whatever _engine is
EngineErrorNever(e) == ""

\* the error of the engine property, "" when it returns the engine
EngineError(e) == IF ~e THEN "RuntimeError" ELSE ""

\* the ways execute_query(query) may end with the engine e and the queries ex
\* run so far: the error of the engine property printed and raised again,
\* or the query run, which returns its rows or raises
execute_query(e, ex, query) ==
    IF EngineError(e) # ""
    THEN {[outcome |-> "raised", error |-> EngineError(e), executed |-> ex]}
    ELSE {[outcome |-> "returned", error |-> "", executed |-> Append(ex, query)],
          [outcome |-> "raised", error |-> "DatabaseError", executed |-> Append(ex, query)]}

\* a call that ends in execute_query(query)
RunsQuery(op, arg, query) ==
    /\ engine => Len(executed) < MaxQueries
    /\ \E r \in execute_query(engine, executed, query) :
          /\ last' = DbCall(op, arg, r.outcome, r.error)
          /\ executed' = r.executed
    /\ UNCHANGED <<scaler, model, feature_names_, _trained, files, now, mt, prev,
                   pc, engine, analytics_results, log, ai_summary, skipped>>

\* db.execute_query(query)
ExecuteQuery(query) == RunsQuery("execute_query", query, query)

\* db.execute_query_from_file(file_path): the file is looked for first
ExecuteQueryFromFile(file_path) ==
    IF ~Exists(file_path)
    THEN /\ last' = DbCall("execute_query_from_file", file_path, "raised", "FileNotFoundError")
         /\ UNCHANGED <<scaler, model, feature_names_, _trained, files, now, mt, prev,
                        pc, engine, analytics_results, log, ai_summary, skipped, executed>>
    ELSE RunsQuery("execute_query_from_file", file_path, FileQuery)

\* db.get_table_info(table_name): the error of execute_query printed and
\* raised again
GetTableInfo == RunsQuery("get_table_info", "customers", TableInfoQuery)

\* db.engine
EngineAccess ==
    /\ last' = DbCall("engine", "", IF EngineError(engine) # "" THEN "raised" ELSE "returned",
                      EngineError(engine))
    /\ UNCHANGED <<scaler, model, feature_names_, _trained, files, now, mt, prev,
                   pc, engine, analytics_results, log, ai_summary, skipped, executed>>

\* db.close(): the engine disposed of and unset, nothing when it is unset
Close ==
    /\ engine' = FALSE
    /\ last' = DbCall("close", "", "returned", "")
    /\ UNCHANGED <<scaler, model, feature_names_, _trained, files, now, mt, prev,
                   pc, analytics_results, log, ai_summary, skipped, executed>>

\* the calls on one DatabaseManager, in any order
NextDb ==
    \/ \E query \in Queries : ExecuteQuery(query)
    \/ \E file_path \in SqlFiles : ExecuteQueryFromFile(file_path)
    \/ GetTableInfo
    \/ EngineAccess
    \/ Close

SpecDb == Init /\ [][NextDb]_vars

----------------------------------------------------------------------------
(* Properties *)

\* the feature matrix X of a call
XOf(rec) == [i \in DOMAIN rec.prepared.rows |-> XRow(rec.prepared.rows[i], rec.feature_cols)]

\* the call got as far as the metrics and returned them
Returned(rec) ==
    rec.op = "train_and_evaluate" /\ rec.outcome = "returned" /\ DOMAIN rec.result # {}

Abs(v) == IF v < 0 THEN -v ELSE v

Count(y, c) == Cardinality({i \in DOMAIN y : y[i] = c})

\* C1: once train_and_evaluate has split its rows, the scaler's parameters
\* are those fitted on the rows of the train partition and on nothing else:
\* they are a function of the train rows only, and scoring the test rows
\* leaves them as fitted.
C1_ScalerFittedOnTrainOnly ==
    (last.op = "train_and_evaluate" /\ last.split) =>
        /\ scaler = ScalerFit(Take(XOf(last), last.train))
        /\ scaler.n_samples_seen = Len(last.train)

\* C1 witness: metrics were returned for a test partition whose rows would
\* have changed the scaler had they been seen
C1_Witness ==
    /\ Returned(last)
    /\ last.test # <<>>
    /\ ScalerFit(XOf(last)) # scaler
    /\ ScalerFit(Take(XOf(last), last.test)) # scaler

\* the class counts of the specification's example: 100 rows, 20 positive
Example100 == <<80, 20>>

\* C2: the train and test partitions are disjoint and cover the rows, the
\* test partition holds a quarter of the rows within one row, every class has
\* its share of the test partition within one row (4 to 6 positives for 100
\* rows with 20 positives), and a repeated call on the same table yields the
\* same partition.
C2_StratifiedPartition ==
    /\ (last.op = "train_and_evaluate" /\ last.split) =>
        LET n == Len(last.y)
            train == Range(last.train)
            test == Range(last.test)
        IN  /\ train \cap test = {}
            /\ train \cup test = 1..n
            /\ Len(last.train) + Len(last.test) = n
            /\ Abs(TestSizeDen * Len(last.test) - TestSizeNum * n) < TestSizeDen
            /\ \A c \in Range(last.y) :
                  Abs(Count(last.y_test, c) * n - Len(last.test) * Count(last.y, c)) <= n
    /\ prev.op = "train_and_evaluate" =>
        prev.train = last.train /\ prev.test = last.test
    /\ \A rng \in Streams :
        LET n == SumSeq(Example100)
            n_i == ApproximateMode(Example100, NTrain(n), rng)
            t_i == ApproximateMode([c \in 1..2 |-> Example100[c] - n_i[c]], NTest(n), rng)
        IN  NTest(n) = 25 /\ t_i[1] + t_i[2] = 25 /\ t_i[2] \in 4..6

\* C2 witness: a table of two classes was split twice, the allocation of the
\* train rows hitting a tie that the stream breaks
C2_Witness ==
    /\ prev.op = "train_and_evaluate"
    /\ last.split
    /\ Len(Unique(last.y)) = 2
    /\ Len(last.y) % TestSizeDen = 0
    /\ \E c \in Range(last.y) : Count(last.y, c) = 2

\* train_and_evaluate was called on a table that prepare_features returns
\* empty
EmptyAfterPreparation(rec) ==
    rec.op = "train_and_evaluate" /\ PrepareError(rec.df) = "" /\ rec.prepared.rows = <<>>

\* C3 as stated: training on a table with no rows after feature preparation
\* raises an error to the caller, the model staying unset and the trained
\* flag false.
C3_RaisesOnEmpty ==
    EmptyAfterPreparation(last) =>
        last.outcome = "raised" /\ model = NoModel /\ ~_trained

\* C3 as amended: training on a table with no rows after feature preparation
\* raises nothing and returns an empty result; it fits nothing: the scaler,
\* the model, the trained flag and the output files are left as they were.
C3_SkipsOnEmpty ==
    [][EmptyAfterPreparation(last') =>
          /\ last'.outcome = "returned"
          /\ last'.error = ""
          /\ last'.result = EmptyResult
          /\ last'.written = <<>>
          /\ scaler' = scaler
          /\ model' = model
          /\ _trained' = _trained
          /\ files' = files]_vars

\* C3 witness: a table whose rows all lack the label was given to a fresh
\* instance, which stays without a model
C3_Witness ==
    /\ EmptyAfterPreparation(last)
    /\ last.df.rows # <<>>
    /\ last.outcome = "returned"
    /\ model = NoModel
    /\ ~_trained

\* the call got as far as scoring the test partition
Scored(rec) == rec.op = "train_and_evaluate" /\ rec.y_pred_proba # <<>>

\* C4: whenever the scored test partition holds a single class, the call
\* raises nothing and returns metrics whose roc_auc is 0.0; whenever it holds
\* both classes, the roc_auc returned is the one computed from the predicted
\* probabilities of the churned class.
C4_RocAucPolicy ==
    Scored(last) =>
        IF Len(Unique(last.y_test)) = 1
        THEN /\ last.outcome # "raised"
             /\ Returned(last)
             /\ last.result.roc_auc = <<0, 1>>
        ELSE Returned(last) =>
                last.result.roc_auc = roc_auc_score(last.y_test, last.y_pred_proba)

\* every class of y has at least k rows
EveryClassHas(y, k) == \A c \in Range(y) : Count(y, c) >= k

\* C5 as stated: when the rows are split and every class has at least 2
\* rows, the test partition holds at least one row of every class.
C5_TestHoldsEveryClass ==
    (last.op = "train_and_evaluate" /\ last.split
        /\ EveryClassHas(last.y, 2)) =>
        Range(last.y_test) = Range(last.y)

\* the largest class counts the allocation itself is examined for
MaxCount == 12

\* the rows of a class of count class_counts[c] that the split leaves to the
\* test partition, given the stream
TestRows(class_counts, rng) ==
    LET n == SumSeq(class_counts)
        n_i == ApproximateMode(class_counts, NTrain(n), rng)
    IN  ApproximateMode([c \in DOMAIN class_counts |-> class_counts[c] - n_i[c]],
                        NTest(n), rng)

\* C5 as amended: when the rows are split, the test partition holds at least
\* one row of every class if every class has at least 3 rows, or at least 2
\* rows while the number of rows is not a multiple of 4; the same holds of
\* the allocation for every pair of class counts up to MaxCount.
C5_TestHoldsEveryClassOfThree ==
    /\ (last.op = "train_and_evaluate" /\ last.split
          /\ \/ EveryClassHas(last.y, 3)
             \/ /\ EveryClassHas(last.y, 2)
                /\ Len(last.y) % TestSizeDen # 0) =>
          Range(last.y_test) = Range(last.y)
    /\ last.op = "none" =>
          \A a, b \in 2..MaxCount : \A rng \in Streams :
              (a >= 3 /\ b >= 3) \/ (a + b) % TestSizeDen # 0 =>
                  \A c \in 1..2 : TestRows(<<a, b>>, rng)[c] >= 1

\* C5 witness: two classes of at least 3 rows each were split, and the test
\* partition holds both
C5_Witness ==
    /\ last.op = "train_and_evaluate"
    /\ last.split
    /\ Len(Unique(last.y)) = 2
    /\ EveryClassHas(last.y, 3)
    /\ Range(last.y_test) = {0, 1}

\* the labels are few or degenerate: a single row, a single class, or a
\* class of a single row
Degenerate(y) ==
    /\ y # <<>>
    /\ \/ Len(y) = 1
       \/ Len(Unique(y)) = 1
       \/ \E c \in Range(y) : Count(y, c) = 1

\* C6: on a single row, on rows of one class, or with a class of one row,
\* train_and_evaluate raises nothing: it returns metrics or an empty result.
C6_NeverRaisesOnDegenerate ==
    (last.op = "train_and_evaluate" /\ Degenerate(last.y)) =>
        /\ last.outcome = "returned"
        /\ last.error = ""

\* the sum of the entries of a square matrix, and of its diagonal
MatrixSum(cm) == SumSeq([a \in DOMAIN cm |-> SumSeq(cm[a])])
Trace(cm) == SumSeq([a \in DOMAIN cm |-> cm[a][a]])

\* C7: whenever metrics are returned, the entries of the confusion matrix
\* sum to the number of rows of the test partition, and the accuracy is the
\* sum of the diagonal divided by that number.
C7_MatrixSumsToTestRows ==
    Returned(last) =>
        LET cm == last.result.confusion_matrix
            acc == last.result.accuracy
        IN  /\ MatrixSum(cm) = Len(last.test)
            /\ Len(last.test) > 0
            /\ acc[2] > 0
            /\ acc[1] * Len(last.test) = Trace(cm) * acc[2]

\* C7 witness: metrics were returned for a test partition of several rows,
\* some predicted rightly and some wrongly
C7_Witness ==
    /\ Returned(last)
    /\ Len(last.test) > 1
    /\ Trace(last.result.confusion_matrix) > 0
    /\ Trace(last.result.confusion_matrix) < Len(last.test)

\* the number of test rows of actual class a predicted as class p
Cell(rec, a, p) ==
    Cardinality({i \in DOMAIN rec.y_test : rec.y_test[i] = a /\ rec.y_pred[i] = p})

\* C8: every confusion matrix returned is 2x2, its rows the actual and its
\* columns the predicted class, both in the order (not churned, churned),
\* its entries the counts of the test rows, whatever classes are present.
C8_MatrixIsTwoByTwo ==
    Returned(last) =>
        LET cm == last.result.confusion_matrix
        IN  /\ DOMAIN cm = 1..2
            /\ \A a \in 1..2 :
                  /\ DOMAIN cm[a] = 1..2
                  /\ \A p \in 1..2 : cm[a][p] \in Nat /\ cm[a][p] = Cell(last, a - 1, p - 1)

\* C8 witness: metrics were returned for a test partition of a single class,
\* the other class being present in the predictions only
C8_Witness ==
    /\ Returned(last)
    /\ Len(Unique(last.y_test)) = 1
    /\ Range(last.y_pred) # Range(last.y_test)

\* prepare_features returned the rows of a table that was not empty
Prepared(rec) ==
    rec.op = "prepare_features" /\ rec.outcome = "returned" /\ rec.df.rows # <<>>

\* the whole days from the date of a cell to the reference day ref, a day
\* begun counting as whole when the date lies ahead
WholeDays(ref, cell) ==
    IF cell.kind = "datetime" THEN ref - cell.day - 1 ELSE ref - cell.day

\* the days_since_last_order the specification gives a row
ExpectedDays(has_date, cell, ref) ==
    IF ~has_date \/ cell.kind \in {"null", "text"} THEN 999
    ELSE IF WholeDays(ref, cell) < 0 THEN 0
    ELSE IF WholeDays(ref, cell) > 999 THEN 999
    ELSE WholeDays(ref, cell)

\* C9: in every row prepare_features returns, days_since_last_order is an
\* integer from 0 to 999: the whole days between the reference date and
\* last_order_date, 0 for a date ahead, at most 999, and 999 when the date or
\* its column is missing or the date cannot be parsed.
C9_DaysWithinRange ==
    Prepared(last) =>
        \A i \in DOMAIN last.prepared.rows :
            LET r == last.prepared.rows[i]
            IN  /\ r.days_since_last_order \in 0..999
                /\ r.days_since_last_order =
                      ExpectedDays("last_order_date" \in last.df.cols,
                                   r.last_order_date, last.t \div 2)

\* C9 witness: a row dated ahead of the reference date was prepared, after
\* the clock had moved
C9_Witness ==
    /\ Prepared(last)
    /\ last.t > Day0
    /\ \E i \in DOMAIN last.prepared.rows :
          LET r == last.prepared.rows[i]
          IN  /\ r.last_order_date.kind \in {"date", "datetime"}
              /\ r.last_order_date.day > last.t \div 2
              /\ r.days_since_last_order = 0

\* the recency_bucket the specification gives a number of days
ExpectedBucket(days) ==
    CASE days \in 0..30 -> 1
      [] days \in 31..60 -> 2
      [] days \in 61..90 -> 3
      [] days \in 91..999 -> 4
      [] OTHER -> NaN

\* C10: in every row prepare_features returns, recency_bucket is not missing
\* and is 1 for 0..30 days, 2 for 31..60, 3 for 61..90 and 4 for 91..999.
C10_BucketOfDays ==
    Prepared(last) =>
        \A i \in DOMAIN last.prepared.rows :
            LET r == last.prepared.rows[i]
            IN  /\ r.recency_bucket # NaN
                /\ r.recency_bucket \in 1..4
                /\ r.recency_bucket = ExpectedBucket(r.days_since_last_order)

\* C10 witness: a row of 0 days was prepared and put in bucket 1
C10_Witness ==
    /\ Prepared(last)
    /\ \E i \in DOMAIN last.prepared.rows :
          /\ last.prepared.rows[i].days_since_last_order = 0
          /\ last.prepared.rows[i].recency_bucket = 1

\* the k-th smallest of the values of s
OrderStatistic(s, k) ==
    CHOOSE v \in Range(s) :
        /\ Cardinality({i \in DOMAIN s : s[i] < v}) < k
        /\ Cardinality({i \in DOMAIN s : s[i] <= v}) >= k

\* twice the median of s: twice the middle value, or the sum of the two
\* middle values
TwiceMedian(s) ==
    IF Len(s) % 2 = 1 THEN 2 * OrderStatistic(s, (Len(s) + 1) \div 2)
    ELSE OrderStatistic(s, Len(s) \div 2) + OrderStatistic(s, Len(s) \div 2 + 1)

\* the revenue_12m column of a table
Revenues(df) == [i \in DOMAIN df.rows |-> df.rows[i].revenue_12m]

\* the revenues of the specification's example
ExampleRevenues == <<10, 20, 30, 40, 50>>

\* C11: in every batch given to prepare_features, a row has is_high_value 1
\* exactly when its revenue_12m is at least the median revenue_12m of the
\* batch, and 0 otherwise; of the revenues 10, 20, 30, 40, 50 exactly the
\* three from 30 up get 1.
C11_HighValueAtMedian ==
    /\ Prepared(last) =>
          \A i \in DOMAIN last.prepared.rows :
              LET r == last.prepared.rows[i]
              IN  r.is_high_value =
                    IF 2 * r.revenue_12m >= TwiceMedian(Revenues(last.df)) THEN 1 ELSE 0
    /\ LET example == [cols |-> AllCols,
                       rows |-> [i \in DOMAIN ExampleRevenues |->
                                    Row(i, 1, ExampleRevenues[i], Recent, 0)]]
           out == prepare_features(example, now).rows
       IN  /\ Len(out) = Len(ExampleRevenues)
           /\ \A i \in DOMAIN out : out[i].is_high_value = IF i >= 3 THEN 1 ELSE 0

\* C11 witness: a batch of an even number of rows was prepared, one row
\* below the mean of the two middle revenues and one above
C11_Witness ==
    /\ Prepared(last)
    /\ Len(last.df.rows) % 2 = 0
    /\ \E i, j \in DOMAIN last.prepared.rows :
          /\ last.prepared.rows[i].is_high_value = 0
          /\ last.prepared.rows[j].is_high_value = 1

\* the rows of a table whose is_churned is present and a number
Labelled(rows) == SelectSeq(rows, LAMBDA r : r.is_churned \in {0, 1})

\* C12: prepare_features returns one row for every input row whose
\* is_churned is present and parseable, in the order given, and none for the
\* others; every row returned keeps the is_churned it came with, and the
\* table of the caller is as it was.
C12_LabelledRowsKept ==
    Prepared(last) =>
        LET kept == Labelled(last.df.rows)
            out == last.prepared.rows
        IN  /\ Len(out) = Len(kept)
            /\ \A i \in DOMAIN out :
                  /\ i \in DOMAIN kept
                  /\ out[i].customer_id = kept[i].customer_id
                  /\ out[i].is_churned = kept[i].is_churned
            /\ last.df_after = last.df

\* the row carries the label the query gives it on the reference day of the
\* call, its last order being a date, with or without a time of day
LabelledOnReferenceDay(rec, r, kinds) ==
    /\ "last_order_date" \in rec.df.cols
    /\ r.last_order_date.kind \in kinds
    /\ r.is_churned = ChurnLabel(r.last_order_date, rec.t \div 2)

C14_SameInputSameFeatures ==
    (last.op = "prepare_features" /\ last.outcome = "returned"
        /\ prev.op = "prepare_features"
        /\ prev.df = last.df /\ prev.t \div 2 = last.t \div 2) =>
        /\ prev.prepared = last.prepared
        /\ last.prepared = prepare_features(last.df, 2 * (last.t \div 2))

\* C14 witness: a row whose last order has a time of day was prepared twice
\* on the same day, at midnight and at noon
C14_Witness ==
    /\ last.op = "prepare_features"
    /\ prev.op = "prepare_features"
    /\ prev.df = last.df
    /\ prev.t # last.t
    /\ prev.t \div 2 = last.t \div 2
    /\ \E i \in DOMAIN last.prepared.rows :
          /\ last.prepared.rows[i].last_order_date.kind = "datetime"
          /\ last.prepared.rows[i].days_since_last_order \in 1..998

\* C15: prepare_features called with an empty table returns an empty table
\* and raises nothing, whatever the columns of the table.
C15_EmptyInEmptyOut ==
    (last.op = "prepare_features" /\ last.df.rows = <<>>) =>
        /\ last.outcome = "returned"
        /\ last.error = ""
        /\ last.prepared.rows = <<>>
        /\ last.prepared = last.df

\* C15 witness: an empty table without any column was prepared
C15_Witness ==
    /\ last.op = "prepare_features"
    /\ last.df = EmptyTable({})
    /\ last.outcome = "returned"

\* train_and_evaluate was called on a table with none of the feature columns
NoFeatureColumns(rec) ==
    rec.op = "train_and_evaluate" /\ Range(FeatureCols) \cap rec.df.cols = {}

\* C16 as stated: when the input has none of the expected feature columns,
\* training fails with MissingFeatureColumnsError and no model is fitted.
C16_RaisesMissingFeatureColumns ==
    NoFeatureColumns(last) =>
        /\ last.outcome = "raised"
        /\ last.error = "MissingFeatureColumnsError"
        /\ model = NoModel
        /\ ~_trained

\* C16 as amended: when the input has rows and none of the expected feature
\* columns, train_and_evaluate fails with the KeyError of revenue_12m raised
\* by prepare_features; when it has no rows either it returns an empty
\* result; in both cases nothing is fitted, stored or written.
C16_RaisesKeyError ==
    [][NoFeatureColumns(last') =>
          /\ IF last'.df.rows = <<>>
             THEN last'.outcome = "returned" /\ last'.result = EmptyResult
             ELSE last'.outcome = "raised" /\ last'.error = "KeyError: 'revenue_12m'"
          /\ scaler' = scaler
          /\ model' = model
          /\ _trained' = _trained
          /\ feature_names_' = feature_names_
          /\ files' = files]_vars

\* C16 witness: training on a customer without any feature column raised,
\* the instance staying without a model
C16_Witness ==
    /\ NoFeatureColumns(last)
    /\ last.df.rows # <<>>
    /\ last.outcome = "raised"
    /\ model = NoModel
    /\ ~_trained

\* C17: once a training has succeeded, the stored feature names are the
\* columns of the training matrix in their order and are as many as the
\* coefficients of the classifier; they are the nine feature columns, in the
\* order of the list, and revenue_per_order is not among them.
C17_NamesAlignWithCoefficients ==
    Scored(last) =>
        /\ _trained
        /\ model.fitted
        /\ feature_names_ = last.feature_cols
        /\ \A i \in DOMAIN XOf(last) : DOMAIN XOf(last)[i] = Range(feature_names_)
        /\ model.n_coef = Len(feature_names_)
        /\ feature_names_ = FeatureCols
        /\ Len(feature_names_) = 9
        /\ "revenue_per_order" \notin Range(feature_names_)

\* C17 witness: a training succeeded on a prepared table that carries
\* revenue_per_order, and the feature importance plot was written
C17_Witness ==
    /\ Returned(last)
    /\ Scored(last)
    /\ "revenue_per_order" \in last.prepared.cols
    /\ "churn_feature_importance.png" \in Range(last.written)

\* two ratios <<numerator, denominator>> are the same number
SameRatio(p, q) == p[2] # 0 /\ q[2] # 0 /\ p[1] * q[2] = q[1] * p[2]

\* C18: in every row prepare_features returns, avg_order_value and
\* revenue_per_order are equal, both being revenue_12m / (order_count_12m + 1),
\* and both columns are in the table returned.
C18_AvgEqualsRevenuePerOrder ==
    Prepared(last) =>
        /\ {"avg_order_value", "revenue_per_order"} \subseteq last.prepared.cols
        /\ \A i \in DOMAIN last.prepared.rows :
              LET r == last.prepared.rows[i]
              IN  /\ SameRatio(r.avg_order_value, r.revenue_per_order)
                  /\ SameRatio(r.avg_order_value, <<r.revenue_12m, r.order_count_12m + 1>>)
                  /\ r.avg_order_value = r.revenue_per_order

\* C18 witness: a customer with revenue was prepared
C18_Witness ==
    /\ Prepared(last)
    /\ \E i \in DOMAIN last.prepared.rows :
          /\ last.prepared.rows[i].revenue_12m > 0
          /\ last.prepared.rows[i].avg_order_value[1] > 0

\* the stage an entry of the log belongs to, counted from 1
StageOfEvent(e) ==
    CASE e \in Range(KpiNames) -> 1
      [] e = "generate_all_visualizations" -> 2
      [] e \in {"train_and_evaluate", "skipping churn model"} -> 3
      [] e = "generate_and_save" -> 4
      [] OTHER -> 5

\* C19: in every run of main the stages run in the order analytics,
\* visualizations, churn model, AI summary, every stage once and only after
\* the one before it; the five queries are all done, in their order, before
\* any chart or model; the database is closed only after the AI summary, and
\* nothing, no query in particular, follows the close.
C19_StagesInOrder ==
    /\ \A i, j \in DOMAIN log :
          i < j => /\ StageOfEvent(log[i]) <= StageOfEvent(log[j])
                   /\ StageOfEvent(log[j]) > 1 => StageOfEvent(log[i]) < StageOfEvent(log[j])
    /\ \A i \in DOMAIN log :
          /\ StageOfEvent(log[i]) = 1 => log[i] = KpiNames[i]
          /\ StageOfEvent(log[i]) > 1 =>
                /\ i > Len(KpiNames)
                /\ SubSeq(log, 1, Len(KpiNames)) = KpiNames
                /\ DOMAIN analytics_results = Range(KpiNames)
          /\ StageOfEvent(log[i]) > 2 => StageOfEvent(log[i - 1]) = StageOfEvent(log[i]) - 1
          /\ log[i] = "close" => i = Len(log)
    /\ ~engine <=> (log # <<>> /\ log[Len(log)] = "close")
    /\ ~engine => pc = "done"
    /\ (last.op = "train_and_evaluate") => "train_and_evaluate" \in Range(log)

\* C19 witness: a run trained the churn model, saved the summary and closed
\* the database
C19_Witness ==
    /\ pc = "done"
    /\ ~engine
    /\ Returned(last)
    /\ "executive_summary.md" \in files
    /\ Len(log) = Len(KpiNames) + 4

\* the churn stage is over and the table of churn features had no rows
ChurnStageOverOnEmpty ==
    /\ \E i \in DOMAIN log : StageOfEvent(log[i]) = 3
    /\ analytics_results["churn_features"].rows = <<>>

\* the files the churn model writes
ChurnFiles ==
    {"churn_feature_importance.png", "churn_confusion_matrix.png", "churn_roc_curve.png",
     "churn_model_results.txt"}

\* the churn stage was skipped and left nothing behind
SkippedCleanly ==
    /\ "skipping churn model" \in Range(log)
    /\ "train_and_evaluate" \notin Range(log)
    /\ last = NoCall
    /\ model = NoModel
    /\ ~_trained
    /\ scaler = NewScaler
    /\ files \cap ChurnFiles = {}

DocumentedKeys ==
    {"accuracy", "classification_report", "confusion_matrix", "roc_auc",
     "y_test", "y_pred_proba"}

\* C21: every result train_and_evaluate returns that is not empty contains
\* accuracy, classification_report, confusion_matrix, roc_auc, y_test and
\* y_pred_proba.
C21_ResultHasDocumentedKeys ==
    Returned(last) => DocumentedKeys \subseteq DOMAIN last.result

\* C22: every run of main eventually closes the database it has set up,
\* the runs in which a stage raises included.
C22_EventuallyClosed == <>(~engine)

\* the files of one training, in the order they are written
FilesInOrder ==
    <<"churn_feature_importance.png", "churn_confusion_matrix.png",
      "churn_roc_curve.png", "churn_model_results.txt">>

\* C23: train_and_evaluate writes its three plots and its results file only
\* once the model is fitted and the metrics are computed, in the order
\* feature importance, confusion matrix, ROC curve, results file; a call that
\* returns an empty result writes nothing and leaves the model and the
\* trained flag as they were.
C23_FilesAfterMetrics ==
    [][last'.op = "train_and_evaluate" =>
          /\ files' # files =>
                /\ Returned(last')
                /\ Scored(last')
                /\ model'.fitted
                /\ _trained'
                /\ last'.written = FilesInOrder
                /\ files' = files \cup Range(FilesInOrder)
          /\ Returned(last') => last'.written = FilesInOrder
          /\ ~Returned(last') => last'.written = <<>> /\ files' = files
          /\ (last'.outcome = "returned" /\ last'.result = EmptyResult) =>
                /\ model' = model
                /\ _trained' = _trained]_vars

\* C23 witness: an instance that had trained and written its files was
\* given a table without labels, and skipped
C23_Witness ==
    /\ last.op = "train_and_evaluate"
    /\ last.outcome = "returned"
    /\ last.result = EmptyResult
    /\ last.df.rows # <<>>
    /\ _trained
    /\ model.fitted
    /\ files = Range(FilesInOrder)

\* C24: the trained flag is true only while a fitted classifier is stored;
\* it becomes true only by a training whose fit succeeded and never goes
\* back to false; plot_feature_importance called while the flag is false
\* writes nothing and changes nothing.
C24_TrainedMeansFitted ==
    [][/\ _trained' => (model'.kind # "None" /\ model'.fitted)
       /\ _trained => _trained'
       /\ (~_trained /\ _trained') => (last'.op = "train_and_evaluate" /\ last'.split)
       /\ (last'.op = "plot_feature_importance" /\ ~_trained) =>
             /\ last'.outcome = "returned"
             /\ last'.written = <<>>
             /\ UNCHANGED <<scaler, model, feature_names_, _trained, files>>]_vars

\* the revenues of the rows of a table that carry a label
LabelledRevenues(df) == Revenues([cols |-> df.cols, rows |-> dropna(df.rows)])

\* twice a revenue lies between twice the medians a and b, one of them
\* included: the two medians disagree on the row
Disagree(rev, a, b) == (2 * rev >= a) # (2 * rev >= b)

\* C25: the median of is_high_value is taken over every row of the input,
\* the rows dropped afterwards for their missing label included: where the
\* median of the whole batch and that of the rows kept disagree on a row, the
\* row follows the median of the whole batch.
C25_MedianOfWholeBatch ==
    (Prepared(last) /\ last.prepared.rows # <<>>) =>
        LET whole == TwiceMedian(Revenues(last.df))
            kept == TwiceMedian(LabelledRevenues(last.df))
        IN  \A i \in DOMAIN last.prepared.rows :
                LET r == last.prepared.rows[i]
                IN  /\ r.is_high_value = 1 <=> 2 * r.revenue_12m >= whole
                    /\ Disagree(r.revenue_12m, whole, kept) =>
                          (r.is_high_value = 1) # (2 * r.revenue_12m >= kept)

\* C25 witness: a row without label was dropped, and the row kept has the
\* is_high_value that the median of the rows kept would not give it
C25_Witness ==
    /\ Prepared(last)
    /\ Len(last.prepared.rows) < Len(last.df.rows)
    /\ \E i \in DOMAIN last.prepared.rows :
          Disagree(last.prepared.rows[i].revenue_12m,
                   TwiceMedian(Revenues(last.df)), TwiceMedian(LabelledRevenues(last.df)))

\* the configuration with which no summary can be asked for
NoClient(s) == ~s.installed \/ s.api_key = "" \/ s.api_key = "your-api-key-here"

\* a call of generate_and_save is made in the step
SummaryCall == ai_summary'.calls = ai_summary.calls + 1

\* C26: without the anthropic package generate_and_save raises ImportError,
\* and with the package but an empty or placeholder key ValueError, in both
\* cases with no request made, no client constructed and no file written;
\* main() catches these two errors, reports the summary as skipped and goes
\* on to close the database, and lets any other error through; over all the
\* calls on one object at most one client is constructed.
C26_SummaryErrors ==
    [][/\ SummaryCall =>
            /\ ~ai_summary.installed => ai_summary'.outcome = "ImportError"
            /\ (ai_summary.installed /\ NoClient(ai_summary)) =>
                  ai_summary'.outcome = "ValueError"
            /\ NoClient(ai_summary) =>
                  /\ ai_summary'.requests = ai_summary.requests
                  /\ ai_summary'.clients = ai_summary.clients
                  /\ files' = files
            /\ ~NoClient(ai_summary) => ai_summary'.requests = ai_summary.requests + 1
            /\ "executive_summary.md" \in files' \ files => ai_summary'.outcome = "saved"
       /\ (pc = "ai_summary" /\ pc' # pc) =>
            /\ SummaryCall
            /\ skipped' <=> ai_summary'.outcome \in {"ImportError", "ValueError"}
            /\ pc' = "close" <=> ai_summary'.outcome \in {"ImportError", "ValueError", "saved"}
            /\ pc' # "close" => pc' = "aborted"
            /\ engine'
       /\ (pc = "close" /\ pc' # pc) => (pc' = "done" /\ ~engine' /\ skipped' = skipped)
       /\ ai_summary'.clients <= 1
       /\ ai_summary'._client <=> ai_summary'.clients = 1
       /\ ai_summary'.installed = ai_summary.installed
       /\ ai_summary'.api_key = ai_summary.api_key]_vars

\* C26 witness: with the package missing and no key, a call outside main()
\* and the call of main() both raised; main() reported the skip and closed
\* the database, with no request made and no summary written
C26_Witness ==
    /\ ~ai_summary.installed
    /\ ai_summary.api_key = ""
    /\ ai_summary.calls = 2
    /\ ai_summary.outcome = "ImportError"
    /\ skipped
    /\ pc = "done"
    /\ ~engine
    /\ ai_summary.requests = 0
    /\ "executive_summary.md" \notin files

\* two calls answered by the one client of the object
C26_OneClient ==
    /\ ai_summary.requests = 2
    /\ ai_summary.clients = 1
    /\ "executive_summary.md" \in files

\* the calls that go to the engine
EngineCalls == {"execute_query", "execute_query_from_file", "get_table_info", "engine"}

\* once closed the manager stays closed and runs no query, and close() on it
\* changes nothing
StaysClosed ==
    /\ ~engine'
    /\ executed' = executed
    /\ last'.op = "close" => last'.outcome = "returned"
    /\ last'.op \in EngineCalls => last'.outcome = "raised"

\* C27 as stated: after close() the engine stays unset, no query runs, a
\* second close() is a no-op, and every later execute_query,
\* execute_query_from_file or engine access raises RuntimeError.
C27_RuntimeErrorAfterClose ==
    [][~engine => /\ StaysClosed
                  /\ last'.op \in EngineCalls => last'.error = "RuntimeError"]_vars

\* C27 amended: after close() the engine stays unset, no query runs and a
\* second close() is a no-op; every later execute_query, get_table_info or
\* engine access raises RuntimeError, and execute_query_from_file raises
\* FileNotFoundError when its file is missing and RuntimeError when it exists.
C27_NoQueryAfterClose ==
    [][~engine => /\ StaysClosed
                  /\ last'.op \in EngineCalls =>
                        last'.error = IF /\ last'.op = "execute_query_from_file"
                                         /\ last'.arg = "missing.sql"
                                      THEN "FileNotFoundError" ELSE "RuntimeError"]_vars

\* C27 witness: queries were run, the manager was closed, and a query from an
\* existing file then raised RuntimeError
C27_Witness ==
    /\ ~engine
    /\ Len(executed) = MaxQueries
    /\ last = DbCall("execute_query_from_file", "kpi.sql", "raised", "RuntimeError")

\* after close() a query from a missing file raised FileNotFoundError
C27_MissingFileAfterClose ==
    /\ ~engine
    /\ last = DbCall("execute_query_from_file", "missing.sql", "raised", "FileNotFoundError")

====
